---- MODULE Spec2Model ----
(***************************************************************************)
(* Model of debug.py: the resolve-and-report script.  One run prints a    *)
(* header, splits TARGET at its last '.', imports the module part, reads  *)
(* the module's __file__, looks the final segment up on the module and    *)
(* prints success, or lands in one of three except handlers.              *)
(*                                                                         *)
(* Strings are sequences of one-character strings.  The host runtime's    *)
(* module system is the script's external collaborator: it knows one      *)
(* plain (non-package) module, KnownModule, whose behaviour is drawn at   *)
(* Init (absent, raising while it loads, or loading with some members).   *)
(***************************************************************************)
EXTENDS Naturals, Sequences, FiniteSets

VARIABLES
    TARGET,        \* the dotted path (line 6), a sequence of characters
    world,         \* how KnownModule behaves when the runtime loads it
    sys_modules,   \* sys.modules: names of the modules loaded so far
    loadRuns,      \* how many times KnownModule's top-level code has run
    pc,            \* position of the script
    out,           \* the console: the sequence of printed lines
    bound,         \* the script's globals that are bound
    module_name,   \* line 13
    class_name,    \* line 13
    mod,           \* line 15: the name of the loaded module object
    exc,           \* class of the exception being handled, or "none"
    raisedAt,      \* the step of the try body that raised, or "none"
    attempted,     \* the steps of the try body attempted so far, in order
    unhandled,     \* class of the exception that escaped the script, or "none"
    sys_modules0,  \* sys.modules when the run started
    loadRuns0      \* loadRuns when the run started

vars == <<TARGET, world, sys_modules, loadRuns, pc, out, bound, module_name,
          class_name, mod, exc, raisedAt, attempted, unhandled,
          sys_modules0, loadRuns0>>

----------------------------------------------------------------------------
(* Bounds and the input alphabet *)

MaxLen == 3

Chars == {"m", "C", "."}

Strings == UNION {[1..n -> Chars] : n \in 0..MaxLen}

\* The one module the runtime's finders know, and the members it may define.
KnownModule == <<"m">>

MemberNames == {<<"C">>, <<"m">>}

FILE_ATTR == <<"__file__">>

NAME_ATTR == <<"__name__">>

----------------------------------------------------------------------------
(* Python's exception classes and the except clauses of the script *)

\* The base class of each exception class the run can meet.
Base(t) ==
    CASE t = "ModuleNotFoundError" -> "ImportError"
      [] t = "ImportError"         -> "Exception"
      [] t = "AttributeError"      -> "Exception"
      [] t = "NameError"           -> "Exception"
      [] t = "ValueError"          -> "Exception"
      [] t = "TypeError"           -> "Exception"
      [] t = "RuntimeError"        -> "Exception"
      [] OTHER                     -> "BaseException"

RECURSIVE IsInstance(_, _)
IsInstance(t, c) ==
    IF t = c THEN TRUE
    ELSE IF t = "BaseException" THEN FALSE
    ELSE IsInstance(Base(t), c)

\* The ordinary exceptions a module's own top-level code may raise.
LoadExceptions ==
    {"ModuleNotFoundError", "ImportError", "AttributeError", "RuntimeError"}

\* The except clauses in their textual order: the first that matches runs.
SelectHandlerExceptionFirst(t) ==
    IF IsInstance(t, "Exception") THEN "except_Exception"
    ELSE IF IsInstance(t, "ImportError") THEN "except_ImportError"
    ELSE IF IsInstance(t, "AttributeError") THEN "except_AttributeError"
    ELSE "crashed"

SelectHandler(t) ==
    IF IsInstance(t, "ImportError") THEN "except_ImportError"
    ELSE IF IsInstance(t, "AttributeError") THEN "except_AttributeError"
    ELSE IF IsInstance(t, "Exception") THEN "except_Exception"
    ELSE "crashed"

----------------------------------------------------------------------------
(* str.rsplit(".", 1) and the two-name unpacking of line 13 *)

DotPositions(s) == {i \in 1..Len(s) : s[i] = "."}

LastDot(s) == CHOOSE i \in DotPositions(s) : \A j \in DotPositions(s) : j <= i

\* A partition-style split: always two parts, the head empty without a '.'.
rsplitAlwaysTwo(s) ==
    IF DotPositions(s) = {} THEN <<<<>>, s>>
    ELSE <<SubSeq(s, 1, LastDot(s) - 1), SubSeq(s, LastDot(s) + 1, Len(s))>>

rsplit(s) ==
    IF DotPositions(s) = {} THEN <<s>>
    ELSE <<SubSeq(s, 1, LastDot(s) - 1), SubSeq(s, LastDot(s) + 1, Len(s))>>

----------------------------------------------------------------------------
(* The host runtime: importlib.import_module, getattr and dir on a module *)

NoChange(sm, runs) == [exc |-> "none", sm |-> sm, runs |-> runs]

\* The parent package's name: everything before the last '.', or empty.
Parent(name) ==
    IF DotPositions(name) = {} THEN <<>> ELSE SubSeq(name, 1, LastDot(name) - 1)

\* Loading KnownModule for the first time runs its top-level code.
LoadKnown(sm, runs) ==
    IF world.kind = "loads"
    THEN [exc |-> "none", sm |-> sm \cup {KnownModule}, runs |-> runs + 1]
    ELSE IF world.kind = "raises"
    THEN [exc |-> world.exc, sm |-> sm, runs |-> runs + 1]
    ELSE [exc |-> "ModuleNotFoundError", sm |-> sm, runs |-> runs]

\* The import system: a cached module is returned as is; otherwise the parent
\* package is imported first, and KnownModule, not being a package, has no
\* submodules.
RECURSIVE find_and_load(_, _, _)
find_and_load(name, sm, runs) ==
    IF name \in sm THEN NoChange(sm, runs)
    ELSE IF Parent(name) # <<>>
    THEN LET p == find_and_load(Parent(name), sm, runs)
         IN  IF p.exc # "none" THEN p
             ELSE [exc |-> "ModuleNotFoundError", sm |-> p.sm, runs |-> p.runs]
    ELSE IF name = KnownModule THEN LoadKnown(sm, runs)
    ELSE [exc |-> "ModuleNotFoundError", sm |-> sm, runs |-> runs]

\* An import that never consults the cache of loaded modules.
import_moduleNoCache(name, sm, runs) ==
    IF name = <<>> THEN [exc |-> "ValueError", sm |-> sm, runs |-> runs]
    ELSE IF name[1] = "." THEN [exc |-> "TypeError", sm |-> sm, runs |-> runs]
    ELSE find_and_load(name, sm \ {name}, runs)

import_module(name, sm, runs) ==
    IF name = <<>> THEN [exc |-> "ValueError", sm |-> sm, runs |-> runs]
    ELSE IF name[1] = "." THEN [exc |-> "TypeError", sm |-> sm, runs |-> runs]
    ELSE find_and_load(name, sm, runs)

\* dir(m) of the loaded module m; only KnownModule can ever be loaded.
Dir(m) ==
    world.attrs \cup {NAME_ATTR} \cup (IF world.hasFile THEN {FILE_ATTR} ELSE {})

HasAttr(m, a) == a \in Dir(m)

----------------------------------------------------------------------------
(* The console *)

Line(msg, val) == [msg |-> msg, val |-> val]

Printed(msg) == \E i \in 1..Len(out) : out[i].msg = msg

Pos(msg) == CHOOSE i \in 1..Len(out) : out[i].msg = msg

Count(msg) == Cardinality({i \in 1..Len(out) : out[i].msg = msg})

Header ==
    <<Line("Debugging", TARGET), Line("Python Executable", <<>>),
      Line("Path", <<>>)>>

----------------------------------------------------------------------------
(* Initial states *)

Worlds ==
    {[kind |-> "absent", exc |-> "none", attrs |-> {}, hasFile |-> FALSE]}
    \cup {[kind |-> "raises", exc |-> e, attrs |-> {}, hasFile |-> FALSE] :
              e \in LoadExceptions}
    \cup {[kind |-> "loads", exc |-> "none", attrs |-> a, hasFile |-> f] :
              a \in SUBSET MemberNames, f \in BOOLEAN}

Init ==
    /\ TARGET \in Strings
    /\ world \in Worlds
    /\ sys_modules \in
           (IF world.kind = "loads" THEN {{}, {KnownModule}} ELSE {{}})
    /\ loadRuns = Cardinality(sys_modules)
    /\ pc = "start"
    /\ out = <<>>
    /\ bound = {"TARGET"}
    /\ module_name = <<>>
    /\ class_name = <<>>
    /\ mod = <<>>
    /\ exc = "none"
    /\ raisedAt = "none"
    /\ attempted = <<>>
    /\ unhandled = "none"
    /\ sys_modules0 = sys_modules
    /\ loadRuns0 = loadRuns

----------------------------------------------------------------------------
(* The statements of the script *)

Raise(t, step) ==
    /\ exc' = t
    /\ raisedAt' = step
    /\ pc' = SelectHandler(t)
    /\ unhandled' = IF SelectHandler(t) = "crashed" THEN t ELSE "none"

\* Lines 8-10.
PrintHeader ==
    /\ pc = "start"
    /\ out' = out \o Header
    /\ pc' = "split"
    /\ UNCHANGED <<TARGET, world, sys_modules, loadRuns, bound, module_name,
                   class_name, mod, exc, raisedAt, attempted, unhandled,
                   sys_modules0, loadRuns0>>

\* Lines 13-14.
SplitTarget ==
    /\ pc = "split"
    /\ attempted' = Append(attempted, "split")
    /\ IF Len(rsplit(TARGET)) = 2
       THEN /\ module_name' = rsplit(TARGET)[1]
            /\ class_name' = rsplit(TARGET)[2]
            /\ bound' = bound \cup {"module_name", "class_name"}
            /\ out' = Append(out, Line("Attempting to import module",
                                       rsplit(TARGET)[1]))
            /\ pc' = "import"
            /\ UNCHANGED <<exc, raisedAt, unhandled>>
       ELSE /\ Raise("ValueError", "split")
            /\ UNCHANGED <<module_name, class_name, bound, out>>
    /\ UNCHANGED <<TARGET, world, sys_modules, loadRuns, mod,
                   sys_modules0, loadRuns0>>


ImportSucceeds ==
    /\ mod' = module_name
    /\ bound' = bound \cup {"mod"}
    /\ out' = Append(out, Line("Module imported successfully", <<>>))
    /\ pc' = "file"
    /\ UNCHANGED <<exc, raisedAt, unhandled>>

\* An import that is tried a second time when it fails.
ImportModuleRetry ==
    /\ pc = "import"
    /\ attempted' = Append(attempted, "import")
    /\ LET r == import_module(module_name, sys_modules, loadRuns)
       IN  /\ sys_modules' = r.sm
           /\ loadRuns' = r.runs
           /\ IF r.exc = "none"
              THEN ImportSucceeds
              ELSE IF attempted = <<"split">>
              THEN UNCHANGED <<mod, bound, out, pc, exc, raisedAt, unhandled>>
              ELSE /\ Raise(r.exc, "import")
                   /\ UNCHANGED <<mod, bound, out>>
    /\ UNCHANGED <<TARGET, world, module_name, class_name,
                   sys_modules0, loadRuns0>>

\* An import whose failure is swallowed: the script carries on.
ImportModuleCarriesOn ==
    /\ pc = "import"
    /\ attempted' = Append(attempted, "import")
    /\ LET r == import_module(module_name, sys_modules, loadRuns)
       IN  /\ sys_modules' = r.sm
           /\ loadRuns' = r.runs
           /\ IF r.exc = "none"
              THEN ImportSucceeds
              ELSE /\ pc' = "lookup"
                   /\ UNCHANGED <<mod, bound, out, exc, raisedAt, unhandled>>
    /\ UNCHANGED <<TARGET, world, module_name, class_name,
                   sys_modules0, loadRuns0>>

\* Lines 15-16.
ImportModule ==
    /\ pc = "import"
    /\ attempted' = Append(attempted, "import")
    /\ LET r == import_module(module_name, sys_modules, loadRuns)
       IN  /\ sys_modules' = r.sm
           /\ loadRuns' = r.runs
           /\ IF r.exc = "none"
              THEN ImportSucceeds
              ELSE /\ Raise(r.exc, "import")
                   /\ UNCHANGED <<mod, bound, out>>
    /\ UNCHANGED <<TARGET, world, module_name, class_name,
                   sys_modules0, loadRuns0>>

\* Line 17: mod.__file__ is an attribute lookup like any other.
PrintFileLocation ==
    /\ pc = "file"
    /\ attempted' = Append(attempted, "file")
    /\ IF HasAttr(mod, FILE_ATTR)
       THEN /\ out' = Append(out, Line("File location", mod))
            /\ pc' = "lookup"
            /\ UNCHANGED <<exc, raisedAt, unhandled>>
       ELSE /\ Raise("AttributeError", "file")
            /\ UNCHANGED out
    /\ UNCHANGED <<TARGET, world, sys_modules, loadRuns, bound, module_name,
                   class_name, mod, sys_modules0, loadRuns0>>

\* Lines 19-20.
LookupClass ==
    /\ pc = "lookup"
    /\ attempted' = Append(attempted, "lookup")
    /\ out' = Append(out, Line("Looking for class", class_name))
    /\ IF HasAttr(mod, class_name)
       THEN /\ bound' = bound \cup {"cls"}
            /\ pc' = "success"
            /\ UNCHANGED <<exc, raisedAt, unhandled>>
       ELSE /\ Raise("AttributeError", "lookup")
            /\ UNCHANGED bound
    /\ UNCHANGED <<TARGET, world, sys_modules, loadRuns, module_name,
                   class_name, mod, sys_modules0, loadRuns0>>

\* Lines 21-22.
ReportSuccess ==
    /\ pc = "success"
    /\ out' = out \o <<Line("Class found", <<>>),
                       Line("Proper import path", mod \o <<".">> \o class_name)>>
    /\ pc' = "done"
    /\ UNCHANGED <<TARGET, world, sys_modules, loadRuns, bound, module_name,
                   class_name, mod, exc, raisedAt, attempted, unhandled,
                   sys_modules0, loadRuns0>>

\* Lines 24-26.
HandleImportError ==
    /\ pc = "except_ImportError"
    /\ out' = out \o <<Line("IMPORT ERROR", exc),
                       Line("cannot find the file or a dependency is missing",
                            <<>>)>>
    /\ pc' = "done"
    /\ UNCHANGED <<TARGET, world, sys_modules, loadRuns, bound, module_name,
                   class_name, mod, exc, raisedAt, attempted, unhandled,
                   sys_modules0, loadRuns0>>

\* The output of lines 28-30.  Reading an unbound global raises NameError,
\* which no clause of this try statement catches: the lines printed before
\* it stay printed and the exception leaves the script.
AttributeErrorLines ==
    IF ~({"module_name", "class_name"} \subseteq bound)
    THEN <<Line("CLASS NOT FOUND", exc)>>
    ELSE IF "mod" \notin bound
    THEN <<Line("CLASS NOT FOUND", exc),
           Line("module loads, but class isn't in it",
                <<module_name, class_name>>)>>
    ELSE <<Line("CLASS NOT FOUND", exc),
           Line("module loads, but class isn't in it",
                <<module_name, class_name>>),
           Line("Available contents", Dir(mod))>>

\* A handler that leaves the enumeration of the module's members out.
HandleAttributeErrorNoDir ==
    /\ pc = "except_AttributeError"
    /\ out' = out \o SubSeq(AttributeErrorLines, 1, 1)
    /\ pc' = "done"
    /\ UNCHANGED <<TARGET, world, sys_modules, loadRuns, bound, module_name,
                   class_name, mod, exc, raisedAt, attempted, unhandled,
                   sys_modules0, loadRuns0>>

\* Lines 27-30.
HandleAttributeError ==
    /\ pc = "except_AttributeError"
    /\ out' = out \o AttributeErrorLines
    /\ IF {"module_name", "class_name", "mod"} \subseteq bound
       THEN /\ pc' = "done"
            /\ UNCHANGED unhandled
       ELSE /\ pc' = "crashed"
            /\ unhandled' = "NameError"
    /\ UNCHANGED <<TARGET, world, sys_modules, loadRuns, bound, module_name,
                   class_name, mod, exc, raisedAt, attempted,
                   sys_modules0, loadRuns0>>

\* Lines 31-33.
HandleException ==
    /\ pc = "except_Exception"
    /\ out' = out \o <<Line("RUNTIME CRASH", exc),
                       Line("bug/circular import that prevents loading", <<>>)>>
    /\ pc' = "done"
    /\ UNCHANGED <<TARGET, world, sys_modules, loadRuns, bound, module_name,
                   class_name, mod, exc, raisedAt, attempted, unhandled,
                   sys_modules0, loadRuns0>>

Next ==
    \/ PrintHeader
    \/ SplitTarget
    \/ ImportModule
    \/ PrintFileLocation
    \/ LookupClass
    \/ ReportSuccess
    \/ HandleImportError
    \/ HandleAttributeError
    \/ HandleException

Spec == Init /\ [][Next]_vars

----------------------------------------------------------------------------
(* Vocabulary of the properties *)

\* The script has ended: it ran off its last line, or an exception left it.
Terminal == pc \in {"done", "crashed"}

Ran(step) == \E i \in 1..Len(attempted) : attempted[i] = step

Times(step) == Cardinality({i \in 1..Len(attempted) : attempted[i] = step})

FailureCategories == {"IMPORT ERROR", "CLASS NOT FOUND", "RUNTIME CRASH"}

Outcomes == FailureCategories \cup {"Class found"}

TryBody == <<"split", "import", "file", "lookup">>

\* TARGET splits in two and, in the runtime as the run found it, the module
\* part imports without raising.
Importable ==
    /\ Len(rsplit(TARGET)) = 2
    /\ import_module(rsplit(TARGET)[1], sys_modules0, loadRuns0).exc = "none"

\* The module's own top-level code ran during this run's import and raised.
LoadRaised ==
    /\ raisedAt = "import"
    /\ world.kind = "raises"
    /\ loadRuns > loadRuns0

----------------------------------------------------------------------------
(* The claims *)

\* C1: whenever the module's own code raises while import_module loads it,
\* whatever the exception's class, the run reports RUNTIME CRASH and reports
\* neither IMPORT ERROR nor CLASS NOT FOUND.
C1_LoadFailureIsRuntimeCrash ==
    (Terminal /\ LoadRaised) =>
        /\ Printed("RUNTIME CRASH")
        /\ ~Printed("IMPORT ERROR")
        /\ ~Printed("CLASS NOT FOUND")

\* C2: no exception ever leaves the script, whichever step fails, and the
\* AttributeError handler, which evaluates dir(mod), never runs while mod is
\* unbound.
C2_EveryFailureIsHandled ==
    /\ pc # "crashed"
    /\ unhandled = "none"
    /\ (pc = "except_AttributeError" => "mod" \in bound)

\* C3: when TARGET splits in two, its module part is importable and its final
\* segment is an attribute of that module, the finished run has printed the
\* module-imported message, the file location, the class-found message and
\* the proper import path, and none of the three failure categories, whether
\* or not the module carries __file__.
C3_ValidPathReportsSuccess ==
    (Terminal /\ Importable /\ HasAttr(rsplit(TARGET)[1], rsplit(TARGET)[2])) =>
        /\ Printed("Module imported successfully")
        /\ Printed("File location")
        /\ Printed("Class found")
        /\ Printed("Proper import path")
        /\ \A c \in FailureCategories : ~Printed(c)

\* C4 as stated: whenever the module part of a dotted path does not exist or
\* cannot be loaded, the finished run has reported IMPORT ERROR, has not
\* attempted the attribute lookup, and ended without an unhandled exception.
C4_UnloadableIsImportError ==
    (Terminal /\ Len(rsplit(TARGET)) = 2 /\ ~Importable) =>
        /\ Printed("IMPORT ERROR")
        /\ ~Ran("lookup")
        /\ pc = "done"
        /\ unhandled = "none"

\* C4 as amended: whenever the import of the module part raises an
\* ImportError (the module is not found, or its load fails with an
\* ImportError such as a missing dependency), the finished run has reported
\* IMPORT ERROR and no other category, has not attempted the attribute
\* lookup, and ended without an unhandled exception.
C4_ImportErrorIsReported ==
    (Terminal /\ raisedAt = "import" /\ IsInstance(exc, "ImportError")) =>
        /\ Printed("IMPORT ERROR")
        /\ ~Printed("CLASS NOT FOUND")
        /\ ~Printed("RUNTIME CRASH")
        /\ ~Printed("Class found")
        /\ ~Ran("file")
        /\ ~Ran("lookup")
        /\ pc = "done"
        /\ unhandled = "none"

C4_Witness ==
    /\ pc = "done"
    /\ raisedAt = "import"
    /\ exc = "ModuleNotFoundError"
    /\ Printed("IMPORT ERROR")

\* C5: when the module part loads and the final segment is not an attribute
\* of the module, the finished run has reported CLASS NOT FOUND, has printed
\* the module's actual members dir(mod), and has reported neither success
\* nor any other failure category.
C5_MissingAttributeListsMembers ==
    (Terminal /\ Importable /\ ~HasAttr(rsplit(TARGET)[1], rsplit(TARGET)[2])) =>
        /\ pc = "done"
        /\ Printed("CLASS NOT FOUND")
        /\ Printed("Available contents")
        /\ out[Pos("Available contents")].val = Dir(rsplit(TARGET)[1])
        /\ ~Printed("Class found")
        /\ ~Printed("IMPORT ERROR")
        /\ ~Printed("RUNTIME CRASH")

C5_Witness ==
    /\ pc = "done"
    /\ Importable
    /\ raisedAt = "lookup"
    /\ Printed("Available contents")

C7_RunIsReadOnly ==
    Terminal => (sys_modules = sys_modules0 /\ loadRuns = loadRuns0)

\* C7 as amended: the only step of a run that changes anything but the
\* console and the script's own variables is the import_module call, and
\* only when the module is not loaded yet: every other step, and the import
\* of an already loaded module, leaves the set of loaded modules and the
\* state reached by load-time code as they were.
C7_OnlyFirstImportHasEffects ==
    [][(pc # "import" \/ module_name \in sys_modules) =>
           (sys_modules' = sys_modules /\ loadRuns' = loadRuns)]_vars

C7_Witness ==
    /\ pc = "done"
    /\ Ran("import")
    /\ module_name \in sys_modules0
    /\ "mod" \in bound
    /\ loadRuns = loadRuns0

\* C8: whenever CLASS NOT FOUND is on the console, the module load had
\* completed in that run: the module-imported message was printed, mod is
\* bound, and the exception reported was raised by the lookup of the final
\* segment and by no other step.
C8_ClassNotFoundMeansModuleLoaded ==
    Printed("CLASS NOT FOUND") =>
        /\ Printed("Module imported successfully")
        /\ "mod" \in bound
        /\ raisedAt = "lookup"

\* C9: the steps occur in one fixed order: nothing precedes the header, which
\* every run prints first; the split precedes the import; the lookup is
\* attempted only after the import succeeded and its success message and the
\* file location were printed; the class-found message and the proper import
\* path are printed only if both the import and the lookup succeeded.
C9_FixedOrder ==
    /\ pc = "start" => (out = <<>> /\ attempted = <<>>)
    /\ pc # "start" => (Len(out) >= Len(Header)
                        /\ SubSeq(out, 1, Len(Header)) = Header)
    /\ Len(attempted) <= Len(TryBody)
    /\ attempted = SubSeq(TryBody, 1, Len(attempted))
    /\ Ran("import") =>
           /\ {"module_name", "class_name"} \subseteq bound
           /\ Printed("Attempting to import module")
    /\ Ran("lookup") =>
           /\ "mod" \in bound
           /\ Printed("Module imported successfully")
           /\ Printed("File location")
           /\ Printed("Looking for class")
           /\ Pos("Module imported successfully") < Pos("File location")
           /\ Pos("File location") < Pos("Looking for class")
    /\ (Printed("Class found") \/ Printed("Proper import path")) =>
           /\ {"mod", "cls"} \subseteq bound
           /\ raisedAt = "none"
           /\ attempted = TryBody
           /\ Pos("Looking for class") < Pos("Class found")

C9_Witness ==
    /\ pc = "done"
    /\ Printed("Proper import path")
    /\ attempted = TryBody

\* C10: for a target without a '.', the split yields one element, the
\* unpacking fails, neither the import nor the lookup is attempted, and the
\* run ends, with no unhandled exception, having reported RUNTIME CRASH and
\* neither IMPORT ERROR nor CLASS NOT FOUND.
C10_NoSeparatorIsRuntimeCrash ==
    (Terminal /\ DotPositions(TARGET) = {}) =>
        /\ Len(rsplit(TARGET)) = 1
        /\ attempted = <<"split">>
        /\ raisedAt = "split"
        /\ exc = "ValueError"
        /\ Printed("RUNTIME CRASH")
        /\ ~Printed("IMPORT ERROR")
        /\ ~Printed("CLASS NOT FOUND")
        /\ pc = "done"
        /\ unhandled = "none"

C10_Witness ==
    /\ pc = "done"
    /\ TARGET # <<>>
    /\ DotPositions(TARGET) = {}
    /\ raisedAt = "split"
    /\ Printed("RUNTIME CRASH")

====
